---- MODULE Spec2Model ----
(***************************************************************************)
(* GTFS dashboard (app.py): the start-up pipeline that derives the route   *)
(* and stop tables from the feed, and the two callbacks that serve the map *)
(* (update_stops, display_info).                                           *)
(*                                                                         *)
(* Tables (pandas DataFrames) are sequences of records, one record per     *)
(* row, in row order.  Identifiers (route_id, trip_id, stop_id) are        *)
(* naturals ordered as the identifier strings are.  An optional value      *)
(* (None or a value) is a sequence of length 0 or 1.                       *)
(***************************************************************************)
EXTENDS Integers, Sequences, FiniteSets, TLC

VARIABLES
    feed,               \* the parsed GTFS feed (routes, trips, stop_times, stops)
    trip_stats,         \* feed.compute_trip_stats()
    pc,                 \* position of the module-level start-up code
    diagnostics,        \* messages printed by the except branch
    route_stats,        \* feed.compute_route_stats(trip_stats, dates=[week[5]])
    routes_gdf,         \* route geometry table, or None
    stops_gdf,          \* stop geometry table
    stop_stats,         \* feed.compute_stop_stats(dates=[week[5]])
    stop_route_info,    \* stop_times x trips x routes
    route_frequencies,  \* AM-peak frequency table
    map_layers,         \* the route layers create_map puts on the map
    top_routes,         \* the table create_top_routes_chart plots
    sessions,           \* viewer sessions connected to the served app
    view,               \* per session: the map's zoom and bounds properties
    stops_layer,        \* per session: features of the stops layer
    clicks,             \* per session: clickData of the stops layer and route layers
    info                \* per session: content of the info display

vars ==
    <<feed, trip_stats, pc, diagnostics, route_stats, routes_gdf, stops_gdf,
      stop_stats, stop_route_info, route_frequencies, map_layers, top_routes,
      sessions, view, stops_layer, clicks, info>>

tables ==
    <<feed, trip_stats, route_stats, routes_gdf, stops_gdf, stop_stats,
      stop_route_info, route_frequencies, map_layers, top_routes>>

serving == <<sessions, view, stops_layer, clicks, info>>

(***************************************************************************)
(* Bounds of the model.                                                    *)
(***************************************************************************)
MaxPeakTrips == 8
MaxOffDay == 1
MaxStopTimes == 4
MaxAssoc == 2
RankFreeRoutes == 4
GridSide == 2

(***************************************************************************)
(* Program constants.                                                      *)
(***************************************************************************)
TopN == 8
HeadLimit == 200
MinZoom == 13
InitialZoom == 10
PeakMinutes == 120
FrequentMax == 15
ConnectorMax == 30

\* Missing value of a numeric column (pandas NaN); no route_type is negative.
NaN == -1
\* Missing value of a string column.
NaNStr == "NaN"
\* None, and the empty click data.
None == <<>>

\* A time string 'HH:MM:SS' is the sequence of its characters, a digit as its
\* value and ':' as Colon, which sorts after every digit as in ASCII.
Colon == 10

TimeStr(h, m, s) ==
    <<h \div 10, h % 10, Colon, m \div 10, m % 10, Colon, s \div 10, s % 10>>

\* Python's <= on strings: the first differing character decides, a proper
\* prefix is smaller.
StrLeq(a, b) ==
    LET n == IF Len(a) < Len(b) THEN Len(a) ELSE Len(b)
        diff == {i \in 1..n : a[i] # b[i]}
    IN  IF diff = {}
        THEN Len(a) <= Len(b)
        ELSE LET i == CHOOSE j \in diff : \A k \in diff : j <= k
             IN  a[i] < b[i]

colors ==
    (0 :> "#9b59b6") @@ (1 :> "#34495e") @@ (2 :> "#e74c3c") @@ (3 :> "#27ae60")
    @@ (4 :> "#3498db") @@ (5 :> "#f1c40f") @@ (6 :> "#1abc9c") @@ (7 :> "#e67e22")
    @@ (11 :> "#95a5a6") @@ (12 :> "#8e44ad")

types ==
    (0 :> "LightRail") @@ (1 :> "Subway") @@ (2 :> "Rail") @@ (3 :> "Bus")
    @@ (4 :> "Ferry") @@ (5 :> "CableTram") @@ (6 :> "AerialLift")
    @@ (7 :> "Funicular") @@ (11 :> "Trolleybus") @@ (12 :> "Monorail")

\* colors.items(): the keys in insertion order.
ColorItems == <<0, 1, 2, 3, 4, 5, 6, 7, 11, 12>>

FallbackColor == "#95a5a6"

(***************************************************************************)
(* pandas operations.                                                      *)
(***************************************************************************)
Range(s) == {s[i] : i \in DOMAIN s}

Column(rows, c) == [i \in DOMAIN rows |-> rows[i][c]]

Project(rows, cols) == [i \in DOMAIN rows |-> [c \in cols |-> rows[i][c]]]

\* The elements of a set of numbers in ascending order.
RECURSIVE Sorted(_)
Sorted(S) ==
    IF S = {}
    THEN <<>>
    ELSE LET m == CHOOSE x \in S : \A y \in S : x <= y
         IN  <<m>> \o Sorted(S \ {m})

\* Series.map(dict): a value that is no key maps to the missing value.
Map(d, k) == IF k \in DOMAIN d THEN d[k] ELSE NaNStr

FillNa(v, fill) == IF v = NaNStr THEN fill ELSE v

\* The concatenation of the sequences ss[lo], ..., ss[hi].
RECURSIVE FlattenRange(_, _, _)
FlattenRange(ss, lo, hi) ==
    IF lo > hi
    THEN <<>>
    ELSE IF lo = hi
         THEN ss[lo]
         ELSE LET mid == (lo + hi) \div 2
              IN  FlattenRange(ss, lo, mid) \o FlattenRange(ss, mid + 1, hi)

Flatten(ss) == FlattenRange(ss, 1, Len(ss))

\* left.merge(right, on=key): for each left row in order, one row per right
\* row with the same key, in right order.
MergeInner(left, right, key) ==
    LET match(l) == SelectSeq(right, LAMBDA r : r[key] = l[key])
    IN  Flatten([i \in DOMAIN left |->
            [k \in DOMAIN match(left[i]) |-> left[i] @@ match(left[i])[k]]])

\* left.merge(right, on=key, how='left'): as the inner merge, and a left row
\* without a match is kept with the right columns missing.
MergeLeft(left, right, key, missing) ==
    LET match(l) == SelectSeq(right, LAMBDA r : r[key] = l[key])
    IN  Flatten([i \in DOMAIN left |->
            IF match(left[i]) = <<>>
            THEN <<left[i] @@ missing>>
            ELSE [k \in DOMAIN match(left[i]) |-> left[i] @@ match(left[i])[k]]])

\* The last n rows instead of the first.
HeadRowsTail(rows, n) ==
    SubSeq(rows, IF Len(rows) < n THEN 1 ELSE Len(rows) - n + 1, Len(rows))

\* DataFrame.head(n)
HeadRows(rows, n) == SubSeq(rows, 1, IF Len(rows) < n THEN Len(rows) ELSE n)

\* The most frequent values in the order of their first appearance.
ModeByAppearance(x) ==
    LET vals == Range(x) \ {NaN}
        cnt(v) == Cardinality({i \in DOMAIN x : x[i] = v})
        top == {v \in vals : \A w \in vals : cnt(w) <= cnt(v)}
        firsts == {i \in DOMAIN x : x[i] \in top /\ \A k \in 1..(i - 1) : x[k] # x[i]}
        order == Sorted(firsts)
    IN  [i \in DOMAIN order |-> x[order[i]]]

\* Series.mode(): the most frequent values, missing values dropped, ascending.
Mode(x) ==
    LET vals == Range(x) \ {NaN}
        cnt(v) == Cardinality({i \in DOMAIN x : x[i] = v})
    IN  Sorted({v \in vals : \A w \in vals : cnt(w) <= cnt(v)})

\* nlargest with keep='last': among rows of equal col the later one first.
RECURSIVE NLargestKeepLast(_, _, _)
NLargestKeepLast(n, rows, col) ==
    IF n = 0 \/ rows = <<>>
    THEN <<>>
    ELSE LET i == CHOOSE j \in DOMAIN rows :
                      /\ \A k \in DOMAIN rows : rows[k][col] <= rows[j][col]
                      /\ \A k \in (j + 1)..Len(rows) : rows[k][col] < rows[j][col]
             rest == SubSeq(rows, 1, i - 1) \o SubSeq(rows, i + 1, Len(rows))
         IN  <<rows[i]>> \o NLargestKeepLast(n - 1, rest, col)

\* DataFrame.nlargest(n, col), keep='first': the rows in descending order of
\* col, rows of equal col in their order in the frame, cut to n rows.
RECURSIVE NLargest(_, _, _)
NLargest(n, rows, col) ==
    IF n = 0 \/ rows = <<>>
    THEN <<>>
    ELSE LET i == CHOOSE j \in DOMAIN rows :
                      /\ \A k \in DOMAIN rows : rows[k][col] <= rows[j][col]
                      /\ \A k \in 1..(j - 1) : rows[k][col] < rows[j][col]
             rest == SubSeq(rows, 1, i - 1) \o SubSeq(rows, i + 1, Len(rows))
         IN  <<rows[i]>> \o NLargest(n - 1, rest, col)

(***************************************************************************)
(* The start-up pipeline (module level of app.py), as functions of the     *)
(* feed.                                                                   *)
(***************************************************************************)
\* One row per trip of the feed, whatever its service days.
ComputeTripStats(f) ==
    Project(f.trips, {"trip_id", "route_id", "direction_id", "start_time"})

\* The trips that run on the sample day week[5].
SampleDayTrips(f) == SelectSeq(f.trips, LAMBDA t : t.on_sample_day)

\* One row per route with a trip on the sample day.
ComputeRouteStats(f, ts) ==
    LET day == Range(Column(SampleDayTrips(f), "trip_id"))
        on == SelectSeq(ts, LAMBDA t : t.trip_id \in day)
        ids == Sorted(Range(Column(on, "route_id")))
        typeOf(r) == (CHOOSE x \in Range(f.routes) : x.route_id = r).route_type
    IN  [i \in DOMAIN ids |->
            [route_id |-> ids[i],
             route_type |-> typeOf(ids[i]),
             num_trips |-> Cardinality({k \in DOMAIN on : on[k].route_id = ids[i]}),
             route_color |-> Map(colors, typeOf(ids[i])),
             route_desc |-> Map(types, typeOf(ids[i]))]]

\* feed.geometrize_routes() with the two mapped columns: one row per route.
GeometrizeRoutes(f) ==
    [i \in DOMAIN f.routes |->
        [route_id |-> f.routes[i].route_id,
         route_type |-> f.routes[i].route_type,
         route_color |-> Map(colors, f.routes[i].route_type),
         route_desc |-> Map(types, f.routes[i].route_type)]]

\* feed.geometrize_stops(): one row per stop, geometry.y = lat, geometry.x = lon.
GeometrizeStops(f) == f.stops

\* One row per stop with a stop time of a trip of the sample day.
ComputeStopStats(f) ==
    LET day == Range(Column(SampleDayTrips(f), "trip_id"))
        on == SelectSeq(f.stop_times, LAMBDA st : st.trip_id \in day)
        ids == Sorted(Range(Column(on, "stop_id")))
    IN  [i \in DOMAIN ids |->
            [stop_id |-> ids[i],
             num_trips |-> Cardinality({k \in DOMAIN on : on[k].stop_id = ids[i]})]]

StopRouteInfo(f) ==
    MergeInner(
        MergeInner(f.stop_times, Project(f.trips, {"trip_id", "route_id"}), "trip_id"),
        Project(f.routes, {"route_id", "route_type"}),
        "route_id")

\* The first value of the group, whatever its frequency.
PrimaryTypeFirst(x) == x[1]

\* lambda x: x.mode().iloc[0] if len(x.mode()) > 0 else x.iloc[0]
PrimaryType(x) == IF Len(Mode(x)) > 0 THEN Mode(x)[1] ELSE x[1]

\* groupby('stop_id')['route_type'].agg(...): one row per stop_id, ascending.
StopPrimaryType(sri) ==
    LET ids == Sorted(Range(Column(sri, "stop_id")))
        group(s) == Column(SelectSeq(sri, LAMBDA r : r.stop_id = s), "route_type")
    IN  [i \in DOMAIN ids |->
            [stop_id |-> ids[i], primary_route_type |-> PrimaryType(group(ids[i]))]]

StopColor(t) == FillNa(Map(colors, t), FallbackColor)

\* The description without its fallback.
StopDescNoFill(t) == Map(types, t)

StopDesc(t) == FillNa(Map(types, t), "Unknown")

AssignStopModes(sgdf, spt) ==
    LET m == MergeLeft(sgdf, spt, "stop_id", [primary_route_type |-> NaN])
    IN  [i \in DOMAIN m |->
            m[i] @@ [stop_color |-> StopColor(m[i].primary_route_type),
                     stop_desc |-> StopDesc(m[i].primary_route_type)]]

AM_START == TimeStr(7, 0, 0)

AM_END == TimeStr(9, 0, 0)

InAmPeak(t) ==
    /\ StrLeq(AM_START, t.start_time)
    /\ StrLeq(t.start_time, AM_END)
    /\ t.direction_id = 0

AmPeakTrips(ts) == SelectSeq(ts, InAmPeak)

\* .replace(0, 1)
Replace0(n) == IF n = 0 THEN 1 ELSE n

\* 120 / num_trips, kept as the fraction num / den.
Headway(n) == [num |-> PeakMinutes, den |-> Replace0(n)]

\* x <= bound for the fraction x
HeadwayLeq(x, bound) == x.num <= bound * x.den

\* The two thresholds taken as strict bounds.
HeadwayNameStrict(x) ==
    IF x.num < FrequentMax * x.den
    THEN "frequent"
    ELSE IF x.num < ConnectorMax * x.den THEN "connector" ELSE "local"

HeadwayName(x) ==
    IF HeadwayLeq(x, FrequentMax)
    THEN "frequent"
    ELSE IF HeadwayLeq(x, ConnectorMax) THEN "connector" ELSE "local"

RouteFrequencies(am) ==
    LET ids == Sorted(Range(Column(am, "route_id")))
        count(r) == Cardinality({k \in DOMAIN am : am[k].route_id = r})
    IN  [i \in DOMAIN ids |->
            [route_id |-> ids[i],
             num_trips |-> count(ids[i]),
             headway |-> Headway(count(ids[i])),
             headway_name |-> HeadwayName(Headway(count(ids[i])))]]

MergeFrequencies(rows, rf) ==
    LET m == MergeLeft(rows, Project(rf, {"route_id", "headway_name"}), "route_id",
                       [headway_name |-> NaNStr])
    IN  [i \in DOMAIN m |->
            [m[i] EXCEPT !.headway_name = FillNa(m[i].headway_name, "unknown")]]

Headways == <<"frequent", "connector", "local">>

\* create_map: one layer per route type and tier that has routes, in the
\* order of colors.items() and of the three tiers.
CreateMap(rgdf) ==
    IF rgdf = None
    THEN <<>>
    ELSE LET rows == rgdf[1]
             layer(t, h) ==
                 LET hr == SelectSeq(rows,
                               LAMBDA r : r.route_type = t /\ r.headway_name = h)
                 IN  IF Len(hr) > 0
                     THEN <<[index |-> <<h, t>>, features |-> Column(hr, "route_id")]>>
                     ELSE <<>>
         IN  Flatten([k \in 1..(Len(ColorItems) * Len(Headways)) |->
                 layer(ColorItems[((k - 1) \div Len(Headways)) + 1],
                       Headways[((k - 1) % Len(Headways)) + 1])])

CreateTopRoutesChart(sri, f) ==
    LET ids == Sorted(Range(Column(sri, "route_id")))
        counts == [i \in DOMAIN ids |->
                      [route_id |-> ids[i],
                       trip_count |-> Cardinality({k \in DOMAIN sri :
                                                      sri[k].route_id = ids[i]})]]
        merged == MergeInner(counts, Project(f.routes, {"route_id", "route_type"}),
                             "route_id")
        described == [i \in DOMAIN merged |->
                         merged[i] @@ [route_desc |-> Map(types, merged[i].route_type)]]
    IN  NLargest(TopN, described, "trip_count")

(***************************************************************************)
(* Start-up, one action per stage of the module-level code.                *)
(***************************************************************************)
Stage(from, to) == pc = from /\ pc' = to

\* lines 44-46
RouteStatsStage ==
    /\ Stage("route_stats", "geometrize_routes")
    /\ route_stats' = ComputeRouteStats(feed, trip_stats)
    /\ UNCHANGED <<feed, trip_stats, diagnostics, routes_gdf, stops_gdf, stop_stats,
                   stop_route_info, route_frequencies, map_layers, top_routes, serving>>

\* lines 48-52: geometrize_routes returns
GeometrizeRoutesOk ==
    /\ Stage("geometrize_routes", "geometrize_stops")
    /\ routes_gdf' = <<GeometrizeRoutes(feed)>>
    /\ UNCHANGED <<feed, trip_stats, diagnostics, route_stats, stops_gdf, stop_stats,
                   stop_route_info, route_frequencies, map_layers, top_routes, serving>>

\* lines 53-55: geometrize_routes raises, the except branch runs
GeometrizeRoutesRaises ==
    /\ Stage("geometrize_routes", "geometrize_stops")
    /\ routes_gdf' = None
    /\ diagnostics' = diagnostics \cup {"Could not load route geometries"}
    /\ UNCHANGED <<feed, trip_stats, route_stats, stops_gdf, stop_stats,
                   stop_route_info, route_frequencies, map_layers, top_routes, serving>>

\* lines 57-58
GeometrizeStopsStage ==
    /\ Stage("geometrize_stops", "stop_route_info")
    /\ stops_gdf' = GeometrizeStops(feed)
    /\ stop_stats' = ComputeStopStats(feed)
    /\ UNCHANGED <<feed, trip_stats, diagnostics, route_stats, routes_gdf,
                   stop_route_info, route_frequencies, map_layers, top_routes, serving>>

\* lines 60-63
StopRouteInfoStage ==
    /\ Stage("stop_route_info", "stop_primary_type")
    /\ stop_route_info' = StopRouteInfo(feed)
    /\ UNCHANGED <<feed, trip_stats, diagnostics, route_stats, routes_gdf, stops_gdf,
                   stop_stats, route_frequencies, map_layers, top_routes, serving>>

\* lines 65-72
StopPrimaryTypeStage ==
    /\ Stage("stop_primary_type", "route_frequencies")
    /\ stops_gdf' = AssignStopModes(stops_gdf, StopPrimaryType(stop_route_info))
    /\ UNCHANGED <<feed, trip_stats, diagnostics, route_stats, routes_gdf, stop_stats,
                   stop_route_info, route_frequencies, map_layers, top_routes, serving>>

\* lines 74-77
RouteFrequenciesStage ==
    /\ Stage("route_frequencies", "merge_frequencies")
    /\ route_frequencies' = RouteFrequencies(AmPeakTrips(trip_stats))
    /\ UNCHANGED <<feed, trip_stats, diagnostics, route_stats, routes_gdf, stops_gdf,
                   stop_stats, stop_route_info, map_layers, top_routes, serving>>

\* lines 79-83 on a route geometry table
MergeFrequenciesStage ==
    /\ routes_gdf # None
    /\ Stage("merge_frequencies", "layout")
    /\ routes_gdf' = <<MergeFrequencies(routes_gdf[1], route_frequencies)>>
    /\ UNCHANGED <<feed, trip_stats, diagnostics, route_stats, stops_gdf, stop_stats,
                   stop_route_info, route_frequencies, map_layers, top_routes, serving>>

\* lines 79-83 on None: None has no attribute merge, the AttributeError is
\* not caught and the interpreter exits
MergeFrequenciesRaises ==
    /\ routes_gdf = None
    /\ Stage("merge_frequencies", "aborted")
    /\ UNCHANGED <<tables, diagnostics, serving>>

\* lines 85-342: the layout is built, create_map and the charts are called
LayoutStage ==
    /\ Stage("layout", "serving")
    /\ map_layers' = CreateMap(routes_gdf)
    /\ top_routes' = CreateTopRoutesChart(stop_route_info, feed)
    /\ UNCHANGED <<feed, trip_stats, diagnostics, route_stats, routes_gdf, stops_gdf,
                   stop_stats, stop_route_info, route_frequencies, serving>>

Startup ==
    \/ RouteStatsStage
    \/ GeometrizeRoutesOk
    \/ GeometrizeRoutesRaises
    \/ GeometrizeStopsStage
    \/ StopRouteInfoStage
    \/ StopPrimaryTypeStage
    \/ RouteFrequenciesStage
    \/ MergeFrequenciesStage
    \/ MergeFrequenciesRaises
    \/ LayoutStage

\* The state after lines 10-17: the feed is read and trip_stats computed.
Loaded(f) ==
    /\ feed = f
    /\ trip_stats = ComputeTripStats(f)
    /\ pc = "route_stats"
    /\ diagnostics = {}
    /\ route_stats = <<>>
    /\ routes_gdf = None
    /\ stops_gdf = <<>>
    /\ stop_stats = <<>>
    /\ stop_route_info = <<>>
    /\ route_frequencies = <<>>
    /\ map_layers = <<>>
    /\ top_routes = <<>>
    /\ sessions = {}
    /\ view = <<>>
    /\ stops_layer = <<>>
    /\ clicks = <<>>
    /\ info = <<>>

(***************************************************************************)
(* Feeds.                                                                  *)
(***************************************************************************)
Rep(n, row) == [i \in 1..n |-> row]

\* trip_id = the row's position in trips
WithTripIds(rows) == [i \in DOMAIN rows |-> rows[i] @@ [trip_id |-> i]]

Trip(r, d, t, day) ==
    [route_id |-> r, direction_id |-> d, start_time |-> t, on_sample_day |-> day]

\* Route 1 runs a peak direction-0 trips on the sample day (the first at
\* 07:00:00, the others at 08:15:30), atEnd at 09:00:00, offDay peak
\* direction-0 trips on another day only, and trips outside the filter:
\* dir1 in the other direction, early at 06:59:59, late after 09:00:00.
\* Route 2 runs other peak direction-0 trips.
FrequencyFeed(peak, atEnd, offDay, dir1, early, late, other) ==
    LET trips == WithTripIds(
            Rep(late, Trip(1, 0, TimeStr(9, 0, 1), TRUE))
            \o Rep(IF peak > 0 THEN 1 ELSE 0, Trip(1, 0, TimeStr(7, 0, 0), TRUE))
            \o Rep(dir1, Trip(1, 1, TimeStr(8, 0, 0), TRUE))
            \o Rep(IF peak > 0 THEN peak - 1 ELSE 0, Trip(1, 0, TimeStr(8, 15, 30), TRUE))
            \o Rep(offDay, Trip(1, 0, TimeStr(8, 0, 0), FALSE))
            \o Rep(early, Trip(1, 0, TimeStr(6, 59, 59), TRUE))
            \o Rep(atEnd, Trip(1, 0, TimeStr(9, 0, 0), TRUE))
            \o Rep(late, Trip(1, 0, TimeStr(25, 10, 0), TRUE))
            \o Rep(other, Trip(2, 0, TimeStr(7, 30, 0), TRUE)))
    IN  [routes |-> <<[route_id |-> 2, route_type |-> 4],
                      [route_id |-> 1, route_type |-> 3]>>,
         trips |-> trips,
         stop_times |-> [i \in DOMAIN trips |->
                            [trip_id |-> i, stop_id |-> (i % 2) + 1]],
         stops |-> <<[stop_id |-> 1, lat |-> 0, lon |-> 0],
                     [stop_id |-> 2, lat |-> 0, lon |-> 1],
                     [stop_id |-> 3, lat |-> 1, lon |-> 1]>>]

Init ==
    \E peak \in 0..MaxPeakTrips, atEnd \in 0..1, offDay \in 0..MaxOffDay,
       dir1 \in {0, MaxPeakTrips}, early \in 0..1, late \in {0, MaxPeakTrips},
       other \in 0..1 :
        Loaded(FrequencyFeed(peak, atEnd, offDay, dir1, early, late, other))

Next == Startup

Spec == Init /\ [][Next]_vars

\* Route 1 is a bus route with trip 1, which runs on the sample day; route 2
\* has the given route_type and trip 2, which runs on another day.
ModeFeed(type2, sts) ==
    [routes |-> <<[route_id |-> 1, route_type |-> 3],
                  [route_id |-> 2, route_type |-> type2]>>,
     trips |-> WithTripIds(<<Trip(1, 0, TimeStr(8, 0, 0), TRUE),
                             Trip(2, 0, TimeStr(12, 0, 0), FALSE)>>),
     stop_times |-> sts,
     stops |-> <<[stop_id |-> 1, lat |-> 0, lon |-> 0],
                 [stop_id |-> 2, lat |-> 0, lon |-> 1]>>]

\* Route types of the feeds: Rail, Ferry, Trolleybus and the extended code
\* 700 (bus service), which is no key of types.
FeedRouteTypes == {2, 4, 11, 700}

InitMode ==
    \E type2 \in FeedRouteTypes, n \in 0..MaxStopTimes :
        \E sts \in [1..n -> [trip_id : 1..2, stop_id : 1..2]] :
            Loaded(ModeFeed(type2, sts))

SpecMode == InitMode /\ [][Next]_vars

\* TopN + 1 routes, listed in feed.routes in descending route_id; route r has
\* trip r, which calls count[r] times at stop 1; the stop times are listed in
\* descending route order too.
RankFeed(count) ==
    LET n == TopN + 1
        route(i) == n + 1 - i
    IN  [routes |-> [i \in 1..n |-> [route_id |-> route(i), route_type |-> 3]],
         trips |-> WithTripIds([r \in 1..n |-> Trip(r, 0, TimeStr(8, 0, 0), TRUE)]),
         stop_times |-> Flatten([i \in 1..n |->
                            Rep(count[route(i)], [trip_id |-> route(i), stop_id |-> 1])]),
         stops |-> <<[stop_id |-> 1, lat |-> 0, lon |-> 0]>>]

\* The first RankFreeRoutes routes take any counts, the others share one.
InitRank ==
    \E free \in [1..RankFreeRoutes -> 0..MaxAssoc], rest \in 0..MaxAssoc :
        Loaded(RankFeed([r \in 1..(TopN + 1) |->
                            IF r <= RankFreeRoutes THEN free[r] ELSE rest]))

SpecRank == InitRank /\ [][Next]_vars

(***************************************************************************)
(* The callbacks.                                                          *)
(***************************************************************************)
\* stop.get('stop_name', stop['stop_id'])
StopName(stop) == IF "stop_name" \in DOMAIN stop THEN stop.stop_name ELSE stop.stop_id

\* lines 148-173; the result is the list of features
update_stops(zoom, bounds, sgdf) ==
    IF zoom = None \/ zoom[1] < MinZoom \/ bounds = None
    THEN <<>>
    ELSE LET lat_min == bounds[1][1]
             lat_max == bounds[2][1]
             lon_min == bounds[1][2]
             lon_max == bounds[2][2]
             visible_stops ==
                 HeadRows(
                     SelectSeq(sgdf,
                         LAMBDA r : /\ r.lat >= lat_min /\ r.lat <= lat_max
                                    /\ r.lon >= lon_min /\ r.lon <= lon_max),
                     HeadLimit)
         IN  [i \in DOMAIN visible_stops |->
                 [stop_id |-> visible_stops[i].stop_id,
                  name |-> StopName(visible_stops[i]),
                  type |-> visible_stops[i].stop_desc,
                  geometry |-> <<visible_stops[i].lon, visible_stops[i].lat>>]]

Placeholder == [kind |-> "placeholder"]

\* lines 196-211: the first route click, in layer order, with a stats row
RECURSIVE RouteInfo(_, _)
RouteInfo(route_clicks, rstats) ==
    IF route_clicks = <<>>
    THEN Placeholder
    ELSE LET route_click == Head(route_clicks)
             route_stat ==
                 IF route_click # None
                 THEN SelectSeq(rstats, LAMBDA r : r.route_id = route_click[1].route_id)
                 ELSE <<>>
         IN  IF route_click # None /\ route_stat # <<>>
             THEN [kind |-> "route", stat |-> route_stat[1]]
             ELSE RouteInfo(Tail(route_clicks), rstats)

\* The route clicks looked at before the stop click.
display_infoRoutesFirst(stop_click, route_clicks, sstats, rstats) ==
    LET stop_stat ==
            IF stop_click # None
            THEN SelectSeq(sstats, LAMBDA r : r.stop_id = stop_click[1].stop_id)
            ELSE <<>>
    IN  IF RouteInfo(route_clicks, rstats) # Placeholder
        THEN RouteInfo(route_clicks, rstats)
        ELSE IF stop_click # None /\ stop_stat # <<>>
             THEN [kind |-> "stop", name |-> stop_click[1].name,
                   type |-> stop_click[1].type, stat |-> stop_stat[1]]
             ELSE Placeholder

\* A clicked stop without a stats row shown with zero statistics.
display_infoZeroStats(stop_click, route_clicks, sstats, rstats) ==
    LET stop_stat ==
            IF stop_click # None
            THEN SelectSeq(sstats, LAMBDA r : r.stop_id = stop_click[1].stop_id)
            ELSE <<>>
    IN  IF stop_click # None
        THEN [kind |-> "stop", name |-> stop_click[1].name, type |-> stop_click[1].type,
              stat |-> IF stop_stat # <<>>
                       THEN stop_stat[1]
                       ELSE [stop_id |-> stop_click[1].stop_id, num_trips |-> 0]]
        ELSE RouteInfo(route_clicks, rstats)

\* lines 179-211; the result is the content of the info display
display_info(stop_click, route_clicks, sstats, rstats) ==
    LET stop_stat ==
            IF stop_click # None
            THEN SelectSeq(sstats, LAMBDA r : r.stop_id = stop_click[1].stop_id)
            ELSE <<>>
    IN  IF stop_click # None /\ stop_stat # <<>>
        THEN [kind |-> "stop", name |-> stop_click[1].name,
              type |-> stop_click[1].type, stat |-> stop_stat[1]]
        ELSE RouteInfo(route_clicks, rstats)

\* The zoom levels and bounds a viewer's map reports: no zoom yet, a zoom
\* below and at MinZoom; no bounds yet, or a box with its corners (south-west
\* then north-east, each <<lat, lon>>) at stop coordinates.
Zooms == {None, <<MinZoom - 1>>, <<MinZoom>>}

Boxes ==
    LET lats == Range(Column(stops_gdf, "lat"))
        lons == Range(Column(stops_gdf, "lon"))
    IN  {<<<<a, b>>, <<c, d>>>> : a \in lats, b \in lons, c \in lats, d \in lons}
        \cap {box \in (Int \X Int) \X (Int \X Int) :
                 box[1][1] <= box[2][1] /\ box[1][2] <= box[2][2]}

\* The viewer pans or zooms the map: update_stops runs on the new view.
UpdateStops(s) ==
    /\ pc = "serving"
    /\ \E zoom \in Zooms, bounds \in {None} \cup Boxes :
        /\ view' = [view EXCEPT ![s] = [zoom |-> zoom, bounds |-> bounds]]
        /\ stops_layer' = [stops_layer EXCEPT ![s] = update_stops(zoom, bounds, stops_gdf)]
    /\ UNCHANGED <<tables, pc, diagnostics, sessions, clicks, info>>

\* The viewer clicks a stop shown on the stops layer: display_info runs on
\* the click data of all layers.
ClickStop(s) ==
    /\ pc = "serving"
    /\ \E k \in DOMAIN stops_layer[s] :
        LET feature == <<stops_layer[s][k]>>
        IN  /\ clicks' = [clicks EXCEPT ![s].stop = feature]
            /\ info' = [info EXCEPT ![s] =
                           display_info(feature, clicks[s].routes, stop_stats, route_stats)]
    /\ UNCHANGED <<tables, pc, diagnostics, sessions, view, stops_layer>>

\* The viewer clicks a route of a route layer.
ClickRoute(s) ==
    /\ pc = "serving"
    /\ \E k \in DOMAIN map_layers :
        \E i \in DOMAIN map_layers[k].features :
            LET feature == <<[route_id |-> map_layers[k].features[i]]>>
                route_clicks == [clicks[s].routes EXCEPT ![k] = feature]
            IN  /\ clicks' = [clicks EXCEPT ![s].routes = route_clicks]
                /\ info' = [info EXCEPT ![s] =
                               display_info(clicks[s].stop, route_clicks,
                                            stop_stats, route_stats)]
    /\ UNCHANGED <<tables, pc, diagnostics, sessions, view, stops_layer>>

\* The state once start-up has run to the end on feed f and the viewers ss
\* have loaded the page: the callbacks have run once on the initial
\* properties.
Served(f, ss) ==
    LET ts == ComputeTripStats(f)
        sri == StopRouteInfo(f)
        rgdf == <<MergeFrequencies(GeometrizeRoutes(f), RouteFrequencies(AmPeakTrips(ts)))>>
        layers == CreateMap(rgdf)
        noClicks == [stop |-> None, routes |-> [k \in DOMAIN layers |-> None]]
    IN  /\ feed = f
        /\ trip_stats = ts
        /\ pc = "serving"
        /\ diagnostics = {}
        /\ route_stats = ComputeRouteStats(f, ts)
        /\ routes_gdf = rgdf
        /\ stops_gdf = AssignStopModes(GeometrizeStops(f), StopPrimaryType(sri))
        /\ stop_stats = ComputeStopStats(f)
        /\ stop_route_info = sri
        /\ route_frequencies = RouteFrequencies(AmPeakTrips(ts))
        /\ map_layers = layers
        /\ top_routes = CreateTopRoutesChart(sri, f)
        /\ sessions = ss
        /\ view = [s \in ss |-> [zoom |-> <<InitialZoom>>, bounds |-> None]]
        /\ stops_layer = [s \in ss |-> <<>>]
        /\ clicks = [s \in ss |-> noClicks]
        /\ info = [s \in ss |-> Placeholder]

\* n stops on a GridSide x GridSide grid, listed in descending stop_id: they
\* cycle through the cells, or the first two rows lie in the last cell and
\* all others in the first.  One bus trip calls at stop 1.
QueryFeed(n, clustered) ==
    [routes |-> <<[route_id |-> 1, route_type |-> 3]>>,
     trips |-> WithTripIds(<<Trip(1, 0, TimeStr(8, 0, 0), TRUE)>>),
     stop_times |-> <<[trip_id |-> 1, stop_id |-> 1]>>,
     stops |-> [i \in 1..n |->
                   [stop_id |-> n + 1 - i,
                    stop_name |-> n + 1 - i,
                    lat |-> IF clustered
                            THEN (IF i <= 2 THEN GridSide - 1 ELSE 0)
                            ELSE (i - 1) % GridSide,
                    lon |-> IF clustered
                            THEN (IF i <= 2 THEN GridSide - 1 ELSE 0)
                            ELSE ((i - 1) \div GridSide) % GridSide]]]

InitQuery ==
    \E n \in {3, HeadLimit, HeadLimit + 1, HeadLimit + 3}, clustered \in BOOLEAN :
        Served(QueryFeed(n, clustered), {"viewer"})

NextQuery == \E s \in sessions : UpdateStops(s)

SpecQuery == InitQuery /\ [][NextQuery]_vars

\* Two bus routes (1, 2) and two ferry routes (3, 4), each with one
\* direction-0 trip at 08:00:00; the trips of routes 1 and 3 run on the sample
\* day, those of routes 2 and 4 on another day only.  Stop 1 is served by
\* trip 1 and stop 2 by trip 2.
ServeFeed ==
    [routes |-> <<[route_id |-> 1, route_type |-> 3], [route_id |-> 2, route_type |-> 3],
                  [route_id |-> 3, route_type |-> 4], [route_id |-> 4, route_type |-> 4]>>,
     trips |-> WithTripIds(<<Trip(1, 0, TimeStr(8, 0, 0), TRUE),
                             Trip(2, 0, TimeStr(8, 0, 0), FALSE),
                             Trip(3, 0, TimeStr(8, 0, 0), TRUE),
                             Trip(4, 0, TimeStr(8, 0, 0), FALSE)>>),
     stop_times |-> <<[trip_id |-> 1, stop_id |-> 1], [trip_id |-> 2, stop_id |-> 2]>>,
     stops |-> <<[stop_id |-> 1, stop_name |-> 1, lat |-> 0, lon |-> 0],
                 [stop_id |-> 2, stop_name |-> 2, lat |-> 0, lon |-> 1]>>]

InitServe == Served(ServeFeed, {"a", "b"})

NextServe == \E s \in sessions : UpdateStops(s) \/ ClickStop(s) \/ ClickRoute(s)

SpecServe == InitServe /\ [][NextServe]_vars

(***************************************************************************)
(* Properties of the start-up pipeline.                                    *)
(***************************************************************************)
Merged == pc \in {"layout", "serving"}

GeometryRaised == "Could not load route geometries" \in diagnostics

\* The time of day of an 'HH:MM:SS' string, in seconds.
Seconds(t) ==
    (t[1] * 10 + t[2]) * 3600 + (t[4] * 10 + t[5]) * 60 + (t[7] * 10 + t[8])

\* The direction-0 trips of route r that start from 07:00:00 to 09:00:00.
PeakTripsOf(r) ==
    {k \in DOMAIN feed.trips :
        /\ feed.trips[k].route_id = r
        /\ feed.trips[k].direction_id = 0
        /\ Seconds(feed.trips[k].start_time) >= 7 * 3600
        /\ Seconds(feed.trips[k].start_time) <= 9 * 3600}

\* Those of them that run on the sample day.
SampleDayPeakTripsOf(r) ==
    {k \in PeakTripsOf(r) : feed.trips[k].on_sample_day}

TierOfCount(c) ==
    IF c = 0
    THEN "unknown"
    ELSE IF c < 4 THEN "local" ELSE IF c < 8 THEN "connector" ELSE "frequent"

\* C1: when geometrize_routes raises, start-up is not aborted: no later
\* stage fails because the route geometry table is absent.
C1_GeometryFailureDoesNotAbort == GeometryRaised => pc # "aborted"

\* C2: every route of the route geometry table has the tier of its number c
\* of direction-0 trips starting in [07:00:00, 09:00:00]: unknown for 0, local
\* for 1..3, connector for 4..7, frequent from 8 on; nothing else matters.
C2_TierIsFunctionOfPeakCount ==
    Merged =>
        \A i \in DOMAIN routes_gdf[1] :
            routes_gdf[1][i].headway_name =
                TierOfCount(Cardinality(PeakTripsOf(routes_gdf[1][i].route_id)))

\* A route is frequent with exactly 8 peak trips beside as many trips in the
\* other direction and after the peak, and the other route is unknown.
C2_Witness ==
    /\ Merged
    /\ \E i, j \in DOMAIN routes_gdf[1] :
        /\ routes_gdf[1][i].headway_name = "frequent"
        /\ Cardinality(PeakTripsOf(routes_gdf[1][i].route_id)) = 8
        /\ Cardinality({k \in DOMAIN feed.trips :
                           feed.trips[k].route_id = routes_gdf[1][i].route_id}) > 16
        /\ routes_gdf[1][j].headway_name = "unknown"

\* C3: the count behind a route's tier is the number of its peak direction-0
\* trips that run on the sample day; a trip of another day changes no tier.
C3_TierCountsSampleDayOnly ==
    Merged =>
        \A i \in DOMAIN routes_gdf[1] :
            routes_gdf[1][i].headway_name =
                TierOfCount(Cardinality(SampleDayPeakTripsOf(routes_gdf[1][i].route_id)))

ModesAssigned ==
    pc \in {"route_frequencies", "merge_frequencies", "layout", "serving", "aborted"}

\* The route_type of a stop time: that of the route of its trip.
TypeOfStopTime(st) ==
    LET t == CHOOSE x \in Range(feed.trips) : x.trip_id = st.trip_id
        r == CHOOSE x \in Range(feed.routes) : x.route_id = t.route_id
    IN  r.route_type

\* The route_type of each association of stop s, in row order.
AssocTypes(s) ==
    LET rows == SelectSeq(feed.stop_times, LAMBDA st : st.stop_id = s)
    IN  [i \in DOMAIN rows |-> TypeOfStopTime(rows[i])]

Occurrences(x, v) == Cardinality({i \in DOMAIN x : x[i] = v})

\* The values of x that no other value outnumbers.
MostFrequent(x) ==
    {v \in Range(x) : \A w \in Range(x) : Occurrences(x, w) <= Occurrences(x, v)}

\* The most frequent value of x that appears first in x.
FirstAppearing(x) ==
    x[CHOOSE i \in DOMAIN x :
          /\ x[i] \in MostFrequent(x)
          /\ \A k \in 1..(i - 1) : x[k] \notin MostFrequent(x)]

Least(S) == CHOOSE v \in S : \A w \in S : v <= w

RowsOfStop(s) == {i \in DOMAIN stops_gdf : stops_gdf[i].stop_id = s}

StopIds == Range(Column(feed.stops, "stop_id"))

GtfsRouteTypes == (0..7) \cup {11, 12}

\* C4: a stop with associations gets exactly one primary_route_type, and no
\* route_type occurs more often among its associations than that one.
C4_PrimaryTypeIsMostFrequent ==
    ModesAssigned =>
        \A s \in StopIds :
            AssocTypes(s) # <<>> =>
                /\ Cardinality(RowsOfStop(s)) = 1
                /\ \A i \in RowsOfStop(s) :
                       stops_gdf[i].primary_route_type \in MostFrequent(AssocTypes(s))

\* A stop served three times by one route type and once, first, by another.
C4_Witness ==
    /\ ModesAssigned
    /\ \E i \in DOMAIN stops_gdf :
        LET x == AssocTypes(stops_gdf[i].stop_id)
        IN  /\ Len(x) = 4
            /\ Cardinality(Range(x)) = 2
            /\ Occurrences(x, x[1]) = 1
            /\ stops_gdf[i].primary_route_type # x[1]

\* C5: a stop's stop_desc is 'Unknown' exactly when it has no association.
C5_UnknownIffNoAssociation ==
    ModesAssigned =>
        \A i \in DOMAIN stops_gdf :
            stops_gdf[i].stop_desc = "Unknown" <=> AssocTypes(stops_gdf[i].stop_id) = <<>>

\* C5 as amended: stop_desc is 'Unknown', with the fallback colour, exactly
\* when the stop has no association or its primary_route_type is none of the
\* ten codes of types; otherwise it is the name of that code.
C5_UnknownIffNoAssociationOrUnmappedType ==
    ModesAssigned =>
        \A i \in DOMAIN stops_gdf :
            LET row == stops_gdf[i]
                unmapped == row.primary_route_type \notin GtfsRouteTypes
            IN  /\ row.stop_desc = "Unknown" <=>
                       (AssocTypes(row.stop_id) = <<>> \/ unmapped)
                /\ row.stop_desc = "Unknown" => row.stop_color = "#95a5a6"
                /\ row.stop_desc # "Unknown" =>
                       row.stop_desc \in {"LightRail", "Subway", "Rail", "Bus", "Ferry",
                                          "CableTram", "AerialLift", "Funicular",
                                          "Trolleybus", "Monorail"}

\* One stop without associations and one served by a route of code 700 only:
\* both are 'Unknown'.
C5_Witness ==
    /\ ModesAssigned
    /\ \E i, j \in DOMAIN stops_gdf :
        /\ AssocTypes(stops_gdf[i].stop_id) = <<>>
        /\ stops_gdf[i].stop_desc = "Unknown"
        /\ AssocTypes(stops_gdf[j].stop_id) # <<>>
        /\ stops_gdf[j].primary_route_type = 700
        /\ stops_gdf[j].stop_desc = "Unknown"

Tied(x) == Cardinality(MostFrequent(x)) > 1

AssocCount(r) ==
    Cardinality({k \in DOMAIN feed.stop_times :
                    \E t \in Range(feed.trips) :
                        t.trip_id = feed.stop_times[k].trip_id /\ t.route_id = r})

RouteIds == Range(Column(feed.routes, "route_id"))

AssociatedRoutes == {r \in RouteIds : AssocCount(r) >= 1}

TopRouteIds == Range(Column(top_routes, "route_id"))

Qualifying(b) ==
    {i \in DOMAIN stops_gdf :
        /\ b[1][1] <= stops_gdf[i].lat /\ stops_gdf[i].lat <= b[2][1]
        /\ b[1][2] <= stops_gdf[i].lon /\ stops_gdf[i].lon <= b[2][2]}

\* The first 200 of them in table order.
FirstQualifying(b) ==
    IF Cardinality(Qualifying(b)) <= 200
    THEN Qualifying(b)
    ELSE {i \in Qualifying(b) : Cardinality({j \in Qualifying(b) : j <= i}) <= 200}

RowOfStop(id) == CHOOSE i \in DOMAIN stops_gdf : stops_gdf[i].stop_id = id

\* The features are the stops of the rows R, once each, in table order.
FeaturesAre(features, R) ==
    /\ Len(features) = Cardinality(R)
    /\ \A k \in DOMAIN features :
        /\ \E i \in R : stops_gdf[i].stop_id = features[k].stop_id
        /\ k > 1 => RowOfStop(features[k - 1].stop_id) < RowOfStop(features[k].stop_id)

\* C8: whenever the bounding box is not null, the stops layer holds exactly
\* the stops inside the box, or the first 200 of them in table order, each
\* once and none from outside.
C8_BoxQueryReturnsStopsInBox ==
    \A s \in sessions :
        view[s].bounds # None =>
            FeaturesAre(stops_layer[s], FirstQualifying(view[s].bounds))

\* C8 as amended: that holds when moreover the zoom is not null and at least
\* 13; at a null or smaller zoom the stops layer is empty whatever the box.
C8_BoxQueryReturnsStopsInBoxWhenZoomedIn ==
    \A s \in sessions :
        /\ (view[s].bounds # None /\ view[s].zoom # None /\ view[s].zoom[1] >= 13) =>
               FeaturesAre(stops_layer[s], FirstQualifying(view[s].bounds))
        /\ (view[s].zoom = None \/ view[s].zoom[1] < 13) => stops_layer[s] = <<>>

\* More than 200 stops lie in the box and a stop outside it comes before
\* some of them in the table: the first 200 in the box are returned.
C8_Witness ==
    \E s \in sessions :
        /\ view[s].bounds # None
        /\ view[s].zoom # None
        /\ view[s].zoom[1] >= 13
        /\ Cardinality(Qualifying(view[s].bounds)) > 200
        /\ Len(stops_layer[s]) = 200
        /\ \E i \in DOMAIN stops_gdf :
            /\ i \notin Qualifying(view[s].bounds)
            /\ i < RowOfStop(stops_layer[s][200].stop_id)

StatsStops == Range(Column(stop_stats, "stop_id"))

StatsRoutes == Range(Column(route_stats, "route_id"))

StopHit(s) == clicks[s].stop # None /\ clicks[s].stop[1].stop_id \in StatsStops

RouteHit(s, k) ==
    clicks[s].routes[k] # None /\ clicks[s].routes[k][1].route_id \in StatsRoutes

\* C9: a lookup of a stop or route without a stats row is no fault: the info
\* display then shows statistics of no such id, and the placeholder when no
\* click has a stats row; and no call of update_stops or display_info, in any
\* session, changes a derived table.
C9_LookupMissIsNoData ==
    /\ [](\A s \in sessions :
            /\ info[s].kind \in {"stop", "route", "placeholder"}
            /\ info[s].kind = "stop" =>
                   /\ info[s].stat.stop_id \in StatsStops
                   /\ info[s].stat \in Range(stop_stats)
            /\ info[s].kind = "route" =>
                   /\ info[s].stat.route_id \in StatsRoutes
                   /\ info[s].stat \in Range(route_stats)
            /\ (~StopHit(s) /\ \A k \in DOMAIN clicks[s].routes : ~RouteHit(s, k)) =>
                   info[s] = [kind |-> "placeholder"])
    /\ [][tables' = tables]_vars

\* One viewer has clicked a stop without a stats row and sees the
\* placeholder while the other sees the statistics of a route.
C9_Witness ==
    \E s, t \in sessions :
        /\ clicks[s].stop # None
        /\ clicks[s].stop[1].stop_id \notin StatsStops
        /\ \E k \in DOMAIN clicks[s].routes :
            /\ clicks[s].routes[k] # None
            /\ clicks[s].routes[k][1].route_id \notin StatsRoutes
        /\ info[s] = [kind |-> "placeholder"]
        /\ stops_layer[t] # <<>>
        /\ info[t].kind = "route"

\* The route layers of session s whose click data has a stats row.
RouteHits(s) == {k \in DOMAIN clicks[s].routes : RouteHit(s, k)}

\* C10: a clicked stop with a stats row is shown whatever the route layers
\* hold; without one, the clicked route of the first layer, in layer order,
\* whose clicked route has a stats row is shown; without any, the
\* placeholder.
C10_StopClickTakesPrecedence ==
    \A s \in sessions :
        /\ StopHit(s) =>
            /\ info[s].kind = "stop"
            /\ info[s].stat.stop_id = clicks[s].stop[1].stop_id
        /\ (~StopHit(s) /\ RouteHits(s) # {}) =>
            /\ info[s].kind = "route"
            /\ \E k \in RouteHits(s) :
                /\ \A j \in RouteHits(s) : k <= j
                /\ info[s].stat.route_id = clicks[s].routes[k][1].route_id
        /\ (~StopHit(s) /\ RouteHits(s) = {}) => info[s].kind = "placeholder"

\* A stop with statistics is shown although two route layers hold clicks
\* with statistics; and another viewer, whose clicked stop has none, sees the
\* route of the second layer because the click of the first has none.
C10_Witness ==
    \E s, t \in sessions :
        /\ StopHit(s)
        /\ Cardinality(RouteHits(s)) = 2
        /\ info[s].kind = "stop"
        /\ clicks[t].stop # None
        /\ ~StopHit(t)
        /\ clicks[t].routes[1] # None
        /\ RouteHits(t) = {2}
        /\ info[t].kind = "route"

====
